---- MODULE Spec2Model ----
(***************************************************************************)
(* The MQTT connection lifecycle of mqtt_fuzzer_stateful.py: the           *)
(* MQTTConnection object (connect, disconnect, build_connect_packet), the  *)
(* two callbacks registered on the boofuzz session (pre_send_connect,      *)
(* post_test_case_callback) and the fuzz engine's per-test-case loop that  *)
(* calls them around the transmission of a test case.                      *)
(***************************************************************************)
EXTENDS Integers, Sequences, FiniteSets, TLC

\* ------------------------------------------------------------------ bounds
MaxSocks == 3       \* socket.socket() calls that succeed during one run
MaxTicks == 1       \* int(time.time()) is drawn from StartTime..StartTime+MaxTicks
StartTime == 9      \* earliest value of int(time.time())
MaxLength == 300    \* lengths 0..MaxLength are encoded, besides the boundary values
MaxIdLen == 3       \* client ids of every length up to this, besides the long ones
LiveMaxSocks == 2   \* socket.socket() calls that succeed during one run of LiveSpec
MaxIters == 6       \* iterations of the encoding loop that are counted, and bytes kept

\* --------------------------------------------------------------- constants
MQTT_CONNECT == 16
MQTT_PUBLISH == 48
MQTT_SUBSCRIBE == 130
MQTT_PINGREQ == 192
MQTT_PROTOCOL_LEVEL == 4
MQTT_PROTOCOL_NAME == <<77, 81, 84, 84>>
CONNECT_TIMEOUT == 5
PROBE_TIMEOUT == 1

\* Python's None for MQTTConnection.sock; sockets are numbered from 1.
None == 0

\* Bytes a broker may put in its reply to CONNECT: 0x00, 0x05, 0x20 (CONNACK);
\* and to PINGREQ: 0x00, 0x05, 0xD0 (PINGRESP).
ConnectReplyBytes == {0, 5, 32}
ProbeReplyBytes == {0, 5, 208}

SeqsUpTo(S, n) == UNION {[1..k -> S] : k \in 0..n}

Times == StartTime..(StartTime + MaxTicks)

\* The exceptions a socket operation raises: OSError (refused, reset, broken
\* pipe) and its subclass socket.timeout.
SocketErrors == {"OSError", "timeout"}

\* ---------------------------------------------------------- pure functions

\* struct.pack(">H", n) for 0 <= n <= 65535
pack_H(n) == <<n \div 256, n % 256>>

\* struct.pack(">H", n) raises struct.error outside 0..65535.
pack_H_error(n) == n < 0 \/ n > 65535

\* str(n) for n >= 0, as ASCII codes
RECURSIVE str_int(_)
str_int(n) == IF n < 10 THEN <<48 + n>> ELSE str_int(n \div 10) \o <<48 + (n % 10)>>

\* f"fuzz_{int(time.time())}"
fuzz_client_id(t) == <<102, 117, 122, 122, 95>> \o str_int(t)

\* The UTF-8 bytes of one code point.
encode_char(c) ==
    IF c < 128 THEN <<c>>
    ELSE IF c < 2048 THEN <<192 + (c \div 64), 128 + (c % 64)>>
    ELSE IF c < 65536
         THEN <<224 + (c \div 4096), 128 + ((c \div 64) % 64), 128 + (c % 64)>>
         ELSE <<240 + (c \div 262144), 128 + ((c \div 4096) % 64),
                128 + ((c \div 64) % 64), 128 + (c % 64)>>

\* str.encode(): the UTF-8 bytes of each character in turn (halving the
\* string keeps the evaluation shallow for long identifiers).
RECURSIVE encode(_)
encode(s) ==
    IF Len(s) = 0 THEN <<>>
    ELSE IF Len(s) = 1 THEN encode_char(s[1])
    ELSE LET h == Len(s) \div 2
         IN encode(SubSeq(s, 1, h)) \o encode(SubSeq(s, h + 1, Len(s)))

\* _encode_remaining_length without "digit |= 0x80" (mutant of
\* encode_remaining_length).
RECURSIVE encode_remaining_length_no_flag(_)
encode_remaining_length_no_flag(length) ==
    IF length \div 128 > 0
    THEN <<length % 128>> \o encode_remaining_length_no_flag(length \div 128)
    ELSE <<length % 128>>

\* MQTTConnection._encode_remaining_length, for length >= 0
RECURSIVE encode_remaining_length(_)
encode_remaining_length(length) ==
    LET digit == length % 128
        rest  == length \div 128
    IN IF rest > 0 THEN <<digit + 128>> \o encode_remaining_length(rest)
       ELSE <<digit>>

\* decodeRemainingLength of the design (section 4.1), from the first byte of
\* the buffer: at most 4 bytes are read; a continuation bit on the 4th byte,
\* or the end of the buffer before a byte without one, is MalformedLength.
RECURSIVE decode_from(_, _, _, _)
decode_from(bytes, i, mult, acc) ==
    IF i > 4 \/ i > Len(bytes)
    THEN [ok |-> FALSE, value |-> 0, consumed |-> 0]
    ELSE IF bytes[i] < 128
         THEN [ok |-> TRUE, value |-> acc + bytes[i] * mult, consumed |-> i]
         ELSE decode_from(bytes, i + 1, mult * 128, acc + (bytes[i] - 128) * mult)

decodeRemainingLength(bytes) == decode_from(bytes, 1, 1, 0)

\* build_connect_packet taking the remaining length from the number of
\* characters of the client id (mutant of build_connect_packet).
build_connect_packet_char_count(cid) ==
    LET var_header == pack_H(4) \o MQTT_PROTOCOL_NAME \o <<MQTT_PROTOCOL_LEVEL>>
                      \o <<2>> \o pack_H(60)
        payload == pack_H(Len(cid)) \o encode(cid)
        remaining == Len(var_header) + 2 + Len(cid)
    IN <<MQTT_CONNECT>> \o encode_remaining_length(remaining) \o var_header \o payload

\* build_connect_packet with the Clean Session flag left out (mutant of
\* build_connect_packet).
build_connect_packet_no_flags(cid) ==
    LET var_header == pack_H(4) \o MQTT_PROTOCOL_NAME \o <<MQTT_PROTOCOL_LEVEL>>
                      \o <<0>> \o pack_H(60)
        payload == pack_H(Len(cid)) \o encode(cid)
        remaining == Len(var_header) + Len(payload)
    IN <<MQTT_CONNECT>> \o encode_remaining_length(remaining) \o var_header \o payload

build_connect_packet(cid) ==
    LET var_header == pack_H(4) \o MQTT_PROTOCOL_NAME \o <<MQTT_PROTOCOL_LEVEL>>
                      \o <<2>> \o pack_H(60)
        payload == pack_H(Len(cid)) \o encode(cid)
        remaining == Len(var_header) + Len(payload)
        fixed_header == <<MQTT_CONNECT>> \o encode_remaining_length(remaining)
    IN fixed_header \o var_header \o payload

\* ------------------------------------------------------------------- state
VARIABLES
    pc,          \* where the fuzz engine is in a test case: "pre", "send", "post"
    created,     \* MQTTConnection objects made so far (session._mqtt_connection is None iff 0)
    client_id,   \* MQTTConnection.client_id
    sock,        \* MQTTConnection.sock: None or a socket number
    connected,   \* MQTTConnection.connected
    socks,       \* every socket made by MQTTConnection.connect, by number
    handshakes,  \* the CONNECT packets sent so far: socket and client id of each
    last,        \* what the last operation did
    calc         \* the last call of a codec function: its name, argument and result

vars == <<pc, created, client_id, sock, connected, socks, handshakes, last, calc>>

\* The part of the state a method of MQTTConnection reads and writes.
Self == [sock |-> sock, connected |-> connected, socks |-> socks, client_id |-> client_id]

\* What a call did, starting from m: the new fields, the sockets it opened,
\* the packets it sent, the bytes it received, the exception on its way out
\* ("none": it returned), the last exception raised inside it, caught or not,
\* and the value connect returned.
Started(m) ==
    [sock |-> m.sock, connected |-> m.connected, socks |-> m.socks,
     client_id |-> m.client_id,
     opened |-> {}, sent |-> <<>>, recvd |-> <<>>, exc |-> "none", err |-> "none",
     ret |-> "None"]

Raise(r, e) == [r EXCEPT !.exc = e, !.err = e]

\* What the operation found when it started.
Pre == [sock |-> sock, connected |-> connected, created |-> created,
        client_id |-> client_id, socks |-> socks]

Packet(s, data) == [via |-> "mqtt", sock |-> s, data |-> data]

NoCall == [fn |-> "none"]

NoOp == [op |-> "init",
         pre |-> [sock |-> None, connected |-> FALSE, created |-> 0, client_id |-> <<>>,
                  socks |-> <<>>],
         opened |-> {}, sent |-> <<>>, recvd |-> <<>>, raised |-> "none", err |-> "none",
         ret |-> "None"]

\* ------------------------------------------------- what the broker may do
\* One run of MQTTConnection.connect: the step that raises (and what), or the
\* bytes recv(4) returns.
ConnectOutcomes ==
    {[fail |-> "socket", exc |-> "OSError", reply |-> <<>>]}
    \cup {[fail |-> f, exc |-> e, reply |-> <<>>] :
             f \in {"connect", "sendall", "recv"}, e \in SocketErrors}
    \cup {[fail |-> "none", exc |-> "none", reply |-> r] : r \in SeqsUpTo(ConnectReplyBytes, 4)}

\* One run of MQTTConnection.disconnect: whether sendall and close succeed.
DisconnectOutcomes == [send_ok : BOOLEAN, close_ok : BOOLEAN]

\* One run of the liveness probe: the step that raises, or the bytes recv(2)
\* returns; and what the disconnect that may follow meets.
ProbeOutcomes ==
    {[fail |-> f, exc |-> e, reply |-> <<>>, d |-> d] :
        f \in {"sendall", "recv"}, e \in SocketErrors, d \in DisconnectOutcomes}
    \cup {[fail |-> "none", exc |-> "none", reply |-> r, d |-> d] :
             r \in SeqsUpTo(ProbeReplyBytes, 2), d \in DisconnectOutcomes}

\* The mutated packets the engine transmits (fixed header of a request).
TestCases == {<<MQTT_PUBLISH, 0>>, <<MQTT_SUBSCRIBE, 0>>}

\* ---------------------------------------------------------- MQTTConnection

\* A handler that lets socket.timeout through (mutant of except_Exception).
except_not_timeout(exc) == IF exc = "timeout" THEN exc ELSE "none"

\* "except Exception as e": every socket error is an Exception; what is left
\* propagates. A call that is blocked for ever raises nothing to handle.
except_Exception(exc) == IF exc = "blocked" THEN exc ELSE "none"

\* No handler at all (mutant of bare_except).
no_except(exc) == exc

\* "except: pass"
bare_except(exc) == IF exc = "blocked" THEN exc ELSE "none"

\* A socket left without a timeout (mutant of settimeout).
settimeout_skipped(r, id, t) == r

\* sock.settimeout(t) on socket id.
settimeout(r, id, t) == [r EXCEPT !.socks[id].timeout = t]

\* What a blocking call (connect, sendall, recv) on socket id ends with when
\* the outcome is e: socket.timeout is raised only on a socket that has a
\* timeout; on one that has none the call waits for ever.
blocking(r, id, e) ==
    IF e = "timeout" /\ r.socks[id].timeout = None THEN "blocked" ELSE e

\* The test of lines 117-121 without the return code (mutant of connack_ok).
connack_any_return_code(response) ==
    /\ Len(response) >= 4
    /\ response[1] \div 16 = 2

\* Lines 117-121: the reply is a CONNACK with return code 0.
connack_ok(response) ==
    /\ Len(response) >= 4
    /\ response[1] \div 16 = 2
    /\ response[4] = 0

\* Line 188: the reply is taken for a PINGRESP.
pingresp_ok(response) == Len(response) = 2 /\ response[1] = 208

\* The try block of connect.
connect_try(m, out) ==
    LET r0 == Started(m)
    IN IF out.fail = "socket" THEN Raise(r0, out.exc)
       ELSE
        LET id == Len(m.socks) + 1
            s  == [state |-> "open", peer |-> FALSE, timeout |-> None, auth |-> FALSE]
            r1 == settimeout([r0 EXCEPT !.sock = id, !.socks = Append(m.socks, s),
                                        !.opened = {id}],
                             id, CONNECT_TIMEOUT)
        IN IF out.fail = "connect" THEN Raise(r1, blocking(r1, id, out.exc))
           ELSE
            LET r2 == [r1 EXCEPT !.socks[id].peer = TRUE]
                connect_packet == build_connect_packet(m.client_id)
            IN IF pack_H_error(Len(m.client_id)) THEN Raise(r2, "struct.error")
               ELSE IF out.fail = "sendall" THEN Raise(r2, blocking(r2, id, out.exc))
               ELSE
                LET r3 == [r2 EXCEPT !.sent = <<Packet(id, connect_packet)>>]
                IN IF out.fail = "recv" THEN Raise(r3, blocking(r3, id, out.exc))
                   ELSE
                    LET response == out.reply
                        r4 == [r3 EXCEPT !.recvd = response]
                    IN IF connack_ok(response)
                       THEN [r4 EXCEPT !.connected = TRUE, !.ret = "True",
                                       !.socks[id].auth = TRUE]
                       ELSE [r4 EXCEPT !.ret = "False"]

\* connect trying a second time when the first attempt fails (mutant of connect).
connect_retrying(m, out) ==
    LET r == connect_try(m, out)
        again == connect_try(r, out)
    IN IF r.exc = "none" /\ r.ret = "True" THEN r
       ELSE [again EXCEPT !.exc = "none", !.opened = r.opened \cup again.opened,
                          !.sent = r.sent \o again.sent,
                          !.ret = IF again.ret = "True" THEN "True" ELSE "False"]

connect(m, out) ==
    LET r == connect_try(m, out)
    IN IF except_Exception(r.exc) = "none"
       THEN (IF r.exc = "none" THEN r ELSE [r EXCEPT !.exc = "none", !.ret = "False"])
       ELSE r

\* disconnect that closes the socket but keeps it in self.sock (mutant of
\* disconnect).
disconnect_keeps_sock(m, out) ==
    LET r0 == Started(m)
    IN IF m.sock = None THEN [r0 EXCEPT !.connected = FALSE]
       ELSE [r0 EXCEPT !.socks[m.sock].state = "closed", !.connected = FALSE]

disconnect(m, out) ==
    LET r0 == Started(m)
    IN IF m.sock = None THEN [r0 EXCEPT !.sock = None, !.connected = FALSE]
       ELSE
        LET r1 == IF out.send_ok /\ m.socks[m.sock].peer
                  THEN [r0 EXCEPT !.sent = <<Packet(m.sock, <<224, 0>>)>>]
                  ELSE Raise(r0, "OSError")
        IN IF bare_except(r1.exc) # "none" THEN r1
           ELSE
            LET c  == [r1 EXCEPT !.exc = "none", !.socks[m.sock].state = "closed"]
                r2 == IF out.close_ok THEN c ELSE Raise(c, "OSError")
            IN IF bare_except(r2.exc) # "none" THEN r2
               ELSE [r2 EXCEPT !.exc = "none", !.sock = None, !.connected = FALSE]

\* ---------------------------------------------------------------- callbacks

\* pre_send_connect without its test of mqtt.connected (mutant of
\* pre_send_connect).
pre_send_connect_always(m, out) == connect(m, out)

\* pre_send_connect that never makes a handshake (mutant of pre_send_connect).
pre_send_connect_never(m, out) == Started(m)

\* pre_send_connect clearing mqtt.connected and making a handshake at every
\* call (mutant of pre_send_connect).
pre_send_connect_fresh(m, out) == connect([m EXCEPT !.connected = FALSE], out)

\* pre_send_connect once session._mqtt_connection is set: m is that object.
pre_send_connect(m, out) ==
    IF ~m.connected THEN connect(m, out) ELSE Started(m)

\* The try block of post_test_case_callback, up to the test of the reply.
probe_try(m, out) ==
    LET r0 == settimeout(Started(m), m.sock, PROBE_TIMEOUT)
    IN IF out.fail = "sendall" THEN Raise(r0, blocking(r0, m.sock, out.exc))
       ELSE IF ~m.socks[m.sock].peer THEN Raise(r0, "OSError")
       ELSE
        LET r1 == [r0 EXCEPT !.sent = <<Packet(m.sock, <<MQTT_PINGREQ, 0>>)>>]
        IN IF out.fail = "recv" THEN Raise(r1, blocking(r1, m.sock, out.exc))
           ELSE [r1 EXCEPT !.recvd = out.reply]

\* post_test_case_callback whose handler returns instead of falling through to
\* the teardown (mutant of post_test_case_callback).
post_test_case_callback_except_return(exists, m, out) ==
    IF exists /\ m.sock # None
    THEN LET p == probe_try(m, out)
         IN IF p.exc = "none" /\ pingresp_ok(p.recvd) THEN p
            ELSE IF p.exc # "none" THEN [p EXCEPT !.exc = "none"]
            ELSE LET d == disconnect(p, out.d)
                 IN [d EXCEPT !.sent = p.sent \o d.sent, !.recvd = p.recvd,
                              !.err = p.err, !.connected = FALSE]
    ELSE Started(m)

\* post_test_case_callback without the return of line 189: the teardown
\* follows every probe (mutant of post_test_case_callback).
post_test_case_callback_no_return(exists, m, out) ==
    IF exists /\ m.sock # None
    THEN LET p == probe_try(m, out)
         IN IF bare_except(p.exc) # "none" THEN p
            ELSE LET d == disconnect([p EXCEPT !.exc = "none"], out.d)
                     r == [d EXCEPT !.sent = p.sent \o d.sent, !.recvd = p.recvd,
                                    !.err = p.err]
                 IN IF d.exc # "none" THEN r ELSE [r EXCEPT !.connected = FALSE]
    ELSE Started(m)

\* post_test_case_callback; exists: session._mqtt_connection is not None.
post_test_case_callback(exists, m, out) ==
    IF exists /\ m.sock # None
    THEN LET p == probe_try(m, out)
         IN IF p.exc = "none" /\ pingresp_ok(p.recvd) THEN p
            ELSE IF bare_except(p.exc) # "none" THEN p
            ELSE LET d == disconnect(p, out.d)
                     r == [d EXCEPT !.sent = p.sent \o d.sent, !.recvd = p.recvd,
                                    !.err = p.err]
                 IN IF d.exc # "none" THEN r ELSE [r EXCEPT !.connected = FALSE]
    ELSE Started(m)

Init ==
    /\ pc = "pre"
    /\ created = 0
    /\ client_id = <<>>
    /\ sock = None
    /\ connected = FALSE
    /\ socks = <<>>
    /\ handshakes = <<>>
    /\ last = NoOp
    /\ calc = NoCall

\* ------------------------------------------------------------------ actions

\* The client identifier a CONNECT packet carries.
ClientIdOf(data) ==
    LET k == CHOOSE i \in 2..Len(data) :
                 data[i] < 128 /\ \A j \in 2..(i - 1) : data[j] >= 128
        n == data[k + 11] * 256 + data[k + 12]
    IN SubSeq(data, k + 13, k + 12 + n)

IsConnect(p) == p.data[1] = MQTT_CONNECT

\* The state after operation op with result r; the engine goes on to next
\* unless an exception reached it.
Commit(op, r, next) ==
    /\ sock' = r.sock
    /\ connected' = r.connected
    /\ socks' = r.socks
    /\ handshakes' = handshakes \o SelectSeq(r.sent, IsConnect)
    /\ last' = [op |-> op,
                pre |-> Pre,
                opened |-> r.opened, sent |-> r.sent, recvd |-> r.recvd,
                raised |-> r.exc, err |-> r.err, ret |-> r.ret]
    /\ pc' = IF r.exc = "blocked" THEN "blocked"
             ELSE IF r.exc # "none" THEN "crashed" ELSE next
    /\ UNCHANGED calc

\* Lines 161-168 making a MQTTConnection at every call, up to two of them
\* (mutant of get_or_create).
get_or_create_always(n) == IF n < 2 THEN n + 1 ELSE n

\* Lines 161-168: the number of MQTTConnection objects made once
\* pre_send_connect has looked up session._mqtt_connection, n of them having
\* been made before; one is made only when the attribute is None.
get_or_create(n) == IF n = 0 THEN n + 1 ELSE n

\* The engine calls the pre_send callback before a test case: the first call
\* makes the MQTTConnection, with the time as its client id.
\* outs: what the broker and the sockets may do; maxs: the sockets one run
\* may make.
PreSendConnectWith(outs, maxs) ==
    /\ pc = "pre"
    /\ \E t \in (IF created = 0 THEN Times ELSE {StartTime}) :
       \E out \in outs :
         LET cid == IF created = 0 THEN fuzz_client_id(t) ELSE client_id
         IN /\ out.fail # "socket" => Len(socks) < maxs
            /\ created' = get_or_create(created)
            /\ client_id' = cid
            /\ Commit("pre_send_connect",
                      pre_send_connect([Self EXCEPT !.client_id = cid], out), "send")

PreSendConnect == PreSendConnectWith(ConnectOutcomes, MaxSocks)

\* The engine transmits the test case over the Target's TCPSocketConnection.
Transmit ==
    /\ pc = "send"
    /\ \E data \in TestCases :
         last' = [op |-> "transmit",
                  pre |-> Pre, opened |-> {},
                  sent |-> <<[via |-> "target", sock |-> None, data |-> data]>>,
                  recvd |-> <<>>, raised |-> "none", err |-> "none", ret |-> "None"]
    /\ pc' = "post"
    /\ UNCHANGED <<created, client_id, sock, connected, socks, handshakes, calc>>

\* The engine calls the post_test_case callback after a test case.
PostTestCaseWith(outs) ==
    /\ pc = "post"
    /\ \E out \in outs :
         Commit("post_test_case_callback",
                post_test_case_callback(created > 0, Self, out), "pre")
    /\ UNCHANGED <<created, client_id>>

PostTestCase == PostTestCaseWith(ProbeOutcomes)

\* MQTTConnection.disconnect called on the session's object by the harness,
\* between two test cases.
DisconnectWith(outs) ==
    /\ created > 0
    /\ pc = "pre"
    /\ \E out \in outs : Commit("disconnect", disconnect(Self, out), pc)
    /\ UNCHANGED <<created, client_id>>

Disconnect == DisconnectWith(DisconnectOutcomes)

Next == PreSendConnect \/ Transmit \/ PostTestCase \/ Disconnect

Spec == Init /\ [][Next]_vars

\* ------------------------------------------- the MQTTConnection by itself
\* One MQTTConnection made with the default client id, "boofuzz", and its
\* methods connect and disconnect called in any order.
ObjectInit ==
    /\ pc = "pre"
    /\ created = 1
    /\ client_id = <<98, 111, 111, 102, 117, 122, 122>>
    /\ sock = None
    /\ connected = FALSE
    /\ socks = <<>>
    /\ handshakes = <<>>
    /\ last = NoOp
    /\ calc = NoCall

\* A call of MQTTConnection.connect, whatever the state of the object.
Connect ==
    /\ \E out \in ConnectOutcomes :
         /\ out.fail # "socket" => Len(socks) < MaxSocks
         /\ Commit("connect", connect(Self, out), pc)
    /\ UNCHANGED <<created, client_id>>

ObjectNext == Connect \/ Disconnect

ObjectSpec == ObjectInit /\ [][ObjectNext]_vars

\* ------------------------------------------------- the loop that goes on
\* The same operations with fewer things going wrong: a handshake is
\* accepted, refused, times out waiting for the CONNACK, or finds no socket;
\* a probe is answered, times out, or finds the connection closed; a
\* disconnect sends its packet or fails to.
LiveConnectOutcomes ==
    {[fail |-> "socket", exc |-> "OSError", reply |-> <<>>],
     [fail |-> "recv", exc |-> "timeout", reply |-> <<>>],
     [fail |-> "none", exc |-> "none", reply |-> <<32, 2, 0, 0>>],
     [fail |-> "none", exc |-> "none", reply |-> <<32, 2, 0, 5>>]}

LiveDisconnectOutcomes == {[send_ok |-> b, close_ok |-> TRUE] : b \in BOOLEAN}

LiveProbeOutcomes ==
    {[fail |-> "recv", exc |-> "timeout", reply |-> <<>>, d |-> d] :
        d \in LiveDisconnectOutcomes}
    \cup {[fail |-> "none", exc |-> "none", reply |-> r, d |-> d] :
             r \in {<<>>, <<208, 0>>}, d \in LiveDisconnectOutcomes}

LivePreSendConnect == PreSendConnectWith(LiveConnectOutcomes, LiveMaxSocks)
LivePostTestCase == PostTestCaseWith(LiveProbeOutcomes)
LiveDisconnect == DisconnectWith(LiveDisconnectOutcomes)

LiveNext == LivePreSendConnect \/ Transmit \/ LivePostTestCase \/ LiveDisconnect

\* The engine leaves the stage of the test case it is in: every callback
\* returns (it is one step here) and session.fuzz() goes on to the next stage.
EngineMoves == pc' \in {"pre", "send", "post"}

\* The engine's loop over the test cases goes on: session.fuzz() calls the
\* callbacks around every test case, so the stage keeps changing.
LiveSpec == Init /\ [][LiveNext]_vars /\ WF_pc(EngineMoves)

\* ------------------------------------------------- the codec, call by call

\* The largest remaining length MQTT allows: 268435455.
MaxRemaining == (128 * 128 * 128 * 128) - 1

\* The lengths given to _encode_remaining_length: a range from 0, the values
\* around each change of encoded size, and values past the largest.
Lengths ==
    (0..MaxLength)
    \cup {16383, 16384, 2097151, 2097152, MaxRemaining - 1, MaxRemaining,
          MaxRemaining + 1, 2 * MaxRemaining}

lifecycle == <<pc, created, client_id, sock, connected, socks, handshakes, last>>

\* A call of _encode_remaining_length: the method has no raise statement, it
\* returns the bytes of its loop.
EncodeRemainingLength ==
    /\ calc = NoCall
    /\ \E n \in Lengths :
         calc' = [fn |-> "encode_remaining_length", arg |-> n,
                  out |-> [exc |-> "none", bytes |-> encode_remaining_length(n)]]
    /\ UNCHANGED lifecycle

\* The characters of client ids: 'a', U+00E9 (2 bytes in UTF-8), U+20AC (3).
IdChars == {97, 233, 8364}

Repeat(c, n) == [i \in 1..n |-> c]

\* The client ids a MQTTConnection is made with: short ones, "fuzzer1", the
\* ones of pre_send_connect, and ones long enough for a 2-byte remaining
\* length.
ClientIds ==
    SeqsUpTo(IdChars, MaxIdLen)
    \cup {<<102, 117, 122, 122, 101, 114, 49>>, <<98, 111, 111, 102, 117, 122, 122>>}
    \cup {fuzz_client_id(t) : t \in Times}
    \cup {Repeat(97, n) : n \in 114..118}
    \cup {Repeat(233, n) : n \in 57..59}

\* A call of build_connect_packet on a MQTTConnection whose client id is cid.
BuildConnectPacket ==
    /\ calc = NoCall
    /\ \E cid \in ClientIds :
         calc' = [fn |-> "build_connect_packet", arg |-> cid,
                  out |-> IF pack_H_error(Len(cid))
                          THEN [exc |-> "struct.error", bytes |-> <<>>]
                          ELSE [exc |-> "none", bytes |-> build_connect_packet(cid)]]
    /\ UNCHANGED lifecycle

\* Bytes of the reply recv(4) returns to connect: 0x20 is the CONNACK header,
\* 0x2F has its type with other flags, 0xD0 is another type, 5 a refusal.
HandshakeReplyBytes == {0, 2, 5, 32, 47, 208}

\* Client ids at the limit of the 2-byte length: 65535 and 65536 characters
\* of one byte, 32767 and 32768 characters of two bytes.
LongClientIds ==
    {Repeat(97, 65535), Repeat(97, 65536), Repeat(233, 32767), Repeat(233, 32768)}

\* What the socket calls of one connect do: every reply for the default
\* client id, an accepted and a refused reply and a failing send for the
\* long ones.
HandshakeOutcomes(cid) ==
    IF cid \in LongClientIds
    THEN {[fail |-> "none", exc |-> "none", reply |-> <<32, 2, 0, 0>>],
          [fail |-> "none", exc |-> "none", reply |-> <<32, 2, 0, 5>>],
          [fail |-> "sendall", exc |-> "OSError", reply |-> <<>>]}
    ELSE {[fail |-> f, exc |-> e, reply |-> <<>>] :
             f \in {"socket", "connect", "sendall", "recv"}, e \in SocketErrors}
         \cup {[fail |-> "none", exc |-> "none", reply |-> r] :
                  r \in SeqsUpTo(HandshakeReplyBytes, 4)}

\* connect() on a MQTTConnection just made with client id cid.
Handshake ==
    /\ calc = NoCall
    /\ \E cid \in {<<98, 111, 111, 102, 117, 122, 122>>} \cup LongClientIds :
         \E out \in HandshakeOutcomes(cid) :
            LET m == [sock |-> None, connected |-> FALSE, socks |-> <<>>,
                      client_id |-> cid]
            IN calc' = [fn |-> "connect", arg |-> cid, fail |-> out.fail,
                        out |-> connect(m, out)]
    /\ UNCHANGED lifecycle

CodecNext == EncodeRemainingLength \/ BuildConnectPacket \/ Handshake

CodecSpec == Init /\ [][CodecNext]_vars

\* ------------------------------------- the loop of _encode_remaining_length
\* The arguments the loop is run on: small ones, the limits of 1 to 4 bytes,
\* and negative ones.
LoopArgs ==
    (-3..40) \cup {127, 128, 16383, 16384, 2097151, 2097152, MaxRemaining,
                   MaxRemaining + 1, -128, -129, -16384}

\* Line 93, encoded = bytearray(), with the argument in length.
EncodeLoopStart ==
    /\ calc = NoCall
    /\ \E n \in LoopArgs :
         calc' = [fn |-> "encode_loop", arg |-> n, length |-> n, before |-> n,
                  encoded |-> <<>>, iters |-> 0, done |-> FALSE]
    /\ UNCHANGED lifecycle

\* One iteration of "while True" (lines 94-101): % and // round towards
\* minus infinity, as % and \div do. Iterations are counted and bytes kept up
\* to MaxIters; before is the value of length the iteration started with.
EncodeLoopStep ==
    /\ calc.fn = "encode_loop"
    /\ ~calc.done
    /\ LET digit  == calc.length % 128
           length == calc.length \div 128
           byte   == IF length > 0 THEN digit + 128 ELSE digit
       IN calc' = [calc EXCEPT
                     !.length = length,
                     !.before = calc.length,
                     !.encoded = IF Len(@) < MaxIters THEN Append(@, byte) ELSE @,
                     !.iters = IF @ < MaxIters THEN @ + 1 ELSE @,
                     !.done = (length = 0)]
    /\ UNCHANGED lifecycle

LoopNext == EncodeLoopStart \/ EncodeLoopStep

\* A loop that is running goes on running.
LoopSpec == Init /\ [][LoopNext]_vars /\ WF_vars(LoopNext)

\* ------------------------------------------------------------------ claims

IsPingReq(p) == p.data = <<MQTT_PINGREQ, 0>>

\* A CONNACK whose return code is 0, as the broker sends it.
ConnAckZero(reply) == Len(reply) = 4 /\ reply[1] = 32 /\ reply[4] = 0

\* C1: every test case sent after a successful ensureConnected goes out on
\* the session's own authenticated socket, MQTTConnection.sock.
C1_TestCaseOnSessionSocket ==
    (last.op = "transmit" /\ connected) =>
        \A i \in DOMAIN last.sent :
            last.sent[i].via = "mqtt" /\ last.sent[i].sock = sock

\* C2: from Disconnected, a handshake answered by CONNACK(0) leaves the
\* session connected on the socket it opened; a probe of a connected session
\* whose PINGREQ gets no reply before the timeout leaves connected = False and
\* sock = None; and the ensureConnected that follows a retired session sends
\* its CONNECT on a socket made by that very call, never on an earlier one.
C2_HandshakeProbeRehandshake ==
    /\ (last.op = "pre_send_connect" /\ ~last.pre.connected /\ ConnAckZero(last.recvd))
          => connected /\ sock \in last.opened /\ socks[sock].state = "open"
    /\ (/\ last.op = "post_test_case_callback"
        /\ last.pre.connected
        /\ last.err = "timeout"
        /\ last.sent # <<>>
        /\ IsPingReq(last.sent[1]))
          => ~connected /\ sock = None
    /\ (last.op = "pre_send_connect" /\ last.pre.created > 0 /\ last.pre.sock = None)
          => /\ \A i \in DOMAIN last.sent :
                   /\ IsConnect(last.sent[i])
                   /\ last.sent[i].sock \in last.opened
                   /\ last.sent[i].sock \notin DOMAIN last.pre.socks
             /\ last.err = "none" => Len(last.sent) = 1

\* A second handshake succeeded on a new socket after the first, which had
\* succeeded too, was probed and closed.
C2_Witness ==
    /\ last.op = "pre_send_connect"
    /\ connected
    /\ Len(handshakes) = 2
    /\ socks[handshakes[1].sock].auth
    /\ socks[handshakes[1].sock].timeout = PROBE_TIMEOUT
    /\ socks[handshakes[1].sock].state = "closed"
    /\ sock = handshakes[2].sock
    /\ sock # handshakes[1].sock

\* C3: any two CONNECT packets sent during one run carry distinct client
\* identifiers.
C3_ClientIdsDistinct ==
    \A i, j \in DOMAIN handshakes :
        i # j => ClientIdOf(handshakes[i].data) # ClientIdOf(handshakes[j].data)

\* C4: a failed handshake leaves the session not connected, holding no open
\* socket, with the socket opened for the attempt closed, and connect has
\* returned False.
C4_FailedHandshakeClosesTransport ==
    (last.op = "pre_send_connect" /\ ~last.pre.connected /\ ~connected) =>
        /\ last.ret = "False"
        /\ \A id \in last.opened : socks[id].state = "closed"
        /\ sock = None \/ socks[sock].state = "closed"

C6_EnsureConnectedNoOp ==
    (last.op = "pre_send_connect" /\ last.pre.connected) =>
        /\ last.opened = {} /\ last.sent = <<>> /\ last.recvd = <<>>
        /\ sock = last.pre.sock
        /\ connected = last.pre.connected
        /\ client_id = last.pre.client_id
        /\ socks = last.pre.socks
        /\ created = last.pre.created

C6_Witness ==
    /\ last.op = "pre_send_connect"
    /\ last.pre.connected
    /\ last.pre.sock # None
    /\ pc = "send"

\* C7: post_test_case_callback sends a PINGREQ only on a connected session.
C7_PingOnlyWhenAuthenticated ==
    (last.op = "post_test_case_callback" /\ \E i \in DOMAIN last.sent : IsPingReq(last.sent[i]))
        => last.pre.connected

\* C8: disconnect ends with sock = None and connected = False and raises
\* nothing, whatever sendall and close do; on a session that has no socket it
\* sends nothing and changes nothing.
C8_TeardownUnconditional ==
    last.op = "disconnect" =>
        /\ sock = None
        /\ ~connected
        /\ last.raised = "none"
        /\ pc # "crashed"
        /\ last.pre.sock = None =>
              /\ last.sent = <<>>
              /\ connected = last.pre.connected
              /\ socks = last.pre.socks

\* disconnect ran on a connected session and an error was raised inside it.
C8_Witness ==
    /\ last.op = "disconnect"
    /\ last.pre.connected
    /\ last.err = "OSError"
    /\ socks[last.pre.sock].state = "closed"

\* C9: one pre_send_connect opens at most one socket and sends at most one
\* CONNECT.
C9_NoInternalRetry ==
    last.op = "pre_send_connect" =>
        /\ Cardinality(last.opened) <= 1
        /\ Len(SelectSeq(last.sent, IsConnect)) <= 1
        /\ Len(socks) <= Len(last.pre.socks) + 1
        /\ Len(handshakes) <= Len(last.pre.socks) + 1

\* A handshake refused by the broker (return code 5): one socket, one CONNECT.
C9_Witness ==
    /\ last.op = "pre_send_connect"
    /\ last.ret = "False"
    /\ last.recvd = <<32, 0, 0, 5>>
    /\ Cardinality(last.opened) = 1
    /\ Len(last.sent) = 1

\* C10: no exception leaves pre_send_connect, post_test_case_callback or
\* disconnect, so the engine's run is never ended by one.
C10_NoExceptionEscapes ==
    /\ last.raised = "none"
    /\ pc # "crashed"

\* A timeout was raised inside the handshake and the callback returned.
C10_Witness ==
    /\ last.op = "pre_send_connect"
    /\ last.err = "timeout"
    /\ last.raised = "none"
    /\ pc = "send"

\* C15: for n in [0, 268435455], decoding the bytes _encode_remaining_length
\* produces by the variable-byte rule gives n back and consumes all of them.
C15_RemainingLengthRoundTrip ==
    (calc.fn = "encode_remaining_length" /\ calc.arg <= MaxRemaining) =>
        /\ calc.out.exc = "none"
        /\ decodeRemainingLength(calc.out.bytes) =
              [ok |-> TRUE, value |-> calc.arg, consumed |-> Len(calc.out.bytes)]

\* A three-byte length was encoded.
C15_Witness ==
    /\ calc.fn = "encode_remaining_length"
    /\ calc.arg = 16384
    /\ Len(calc.out.bytes) = 3

\* C16: _encode_remaining_length never produces more than 4 bytes: 1 byte
\* below 128, 2 below 16384, 3 below 2097152, 4 otherwise, the continuation
\* bit set on every byte but the last; 127 -> 7F, 128 -> 80 01,
\* 268435455 -> FF FF FF 7F.
C16_CanonicalAtMostFourBytes ==
    calc.fn = "encode_remaining_length" =>
        LET n == calc.arg
            b == calc.out.bytes
        IN /\ Len(b) <= 4
           /\ Len(b) = (IF n < 128 THEN 1 ELSE IF n < 16384 THEN 2
                        ELSE IF n < 2097152 THEN 3 ELSE 4)
           /\ \A i \in DOMAIN b : (b[i] >= 128) <=> (i < Len(b))
           /\ n = 127 => b = <<127>>
           /\ n = 128 => b = <<128, 1>>
           /\ n = MaxRemaining => b = <<255, 255, 255, 127>>

\* C17: for n > 268435455 _encode_remaining_length fails with ValueOutOfRange
\* and returns no bytes.
C17_OutOfRangeRejected ==
    (calc.fn = "encode_remaining_length" /\ calc.arg > MaxRemaining) =>
        calc.out.exc = "ValueOutOfRange" /\ calc.out.bytes = <<>>

\* The packet a call of build_connect_packet returned; the offset of the
\* last byte of its remaining-length field, the first byte after the packet
\* type that has no continuation bit; and the number the field stands for,
\* 7 bits a byte, the low ones first.
Built == calc.out.bytes
BuiltHeaderEnd == CHOOSE k \in 2..Len(Built) : \A i \in 2..k : (Built[i] < 128) <=> (i = k)

RECURSIVE FieldValue(_, _, _)
FieldValue(b, i, k) ==
    IF i > k THEN 0 ELSE (b[i] % 128) + 128 * FieldValue(b, i + 1, k)

BuiltRemaining == FieldValue(Built, 2, BuiltHeaderEnd)

C14_RemainingLengthCountsBytes ==
    (calc.fn = "build_connect_packet" /\ calc.out.exc = "none") =>
        /\ BuiltHeaderEnd <= 5
        /\ BuiltRemaining = Len(Built) - BuiltHeaderEnd

\* A packet whose remaining length takes two bytes and whose client id has
\* characters of more than one byte.
C14_Witness ==
    /\ calc.fn = "build_connect_packet"
    /\ calc.arg = Repeat(233, 58)
    /\ BuiltHeaderEnd = 3
    /\ BuiltRemaining = 128

\* C18: the 2-byte prefix of the client id in the CONNECT payload equals the
\* number of client-id bytes that follow it.
C18_PrefixCountsBytes ==
    (calc.fn = "build_connect_packet" /\ calc.out.exc = "none") =>
        Built[BuiltHeaderEnd + 11] * 256 + Built[BuiltHeaderEnd + 12]
            = Len(Built) - (BuiltHeaderEnd + 12)

\* C11: connect takes a reply for a successful CONNACK exactly when it has at
\* least 4 bytes, the high nibble of byte 0 is 2 and byte 3 is 0; any other
\* reply makes it return False, and no exception leaves it.
C11_ConnAckAcceptedIff ==
    (calc.fn = "connect" /\ calc.fail = "none" /\ Len(calc.out.sent) = 1) =>
        LET reply == calc.out.recvd
            success == /\ Len(reply) >= 4
                       /\ reply[1] \div 16 = 2
                       /\ reply[4] = 0
        IN /\ calc.out.connected <=> success
           /\ calc.out.ret = (IF success THEN "True" ELSE "False")
           /\ calc.out.exc = "none"
           /\ reply = <<32, 2, 0, 0>> => calc.out.connected
           /\ reply \in {<<32, 2, 0, 5>>, <<32>>} => ~calc.out.connected

\* The reply 20 02 00 00 was received and accepted.
C11_Witness ==
    /\ calc.fn = "connect"
    /\ calc.out.recvd = <<32, 2, 0, 0>>
    /\ calc.out.connected
    /\ calc.out.ret = "True"

\* C19: for a client id whose encoded form is longer than 65535 bytes,
\* connect sends no CONNECT bytes and leaves the session not connected.
C19_OversizedClientIdRejected ==
    (calc.fn = "connect" /\ calc.fail = "none" /\ Len(encode(calc.arg)) > 65535) =>
        /\ calc.out.sent = <<>>
        /\ ~calc.out.connected

\* C12: the liveness probe takes a reply for a PINGRESP, and keeps the
\* session, exactly when the reply is the byte 0xD0 followed by a
\* remaining-length byte of 0.
C12_PingRespAcceptedIff ==
    (/\ last.op = "post_test_case_callback"
     /\ last.pre.created > 0
     /\ last.pre.sock # None
     /\ last.err = "none")
    => ((sock = last.pre.sock /\ connected = last.pre.connected)
            <=> last.recvd = <<208, 0>>)

\* C21: at most one MQTTConnection is ever made on the session, and once it
\* is made every callback works on it: no operation replaces it or its
\* client id.
C21_OneSessionObject ==
    /\ created <= 1
    /\ last.pre.created = 1 => (created = 1 /\ client_id = last.pre.client_id)

\* pre_send_connect ran on a session that already had its MQTTConnection,
\* which was not connected, and made a handshake with it.
C21_Witness ==
    /\ last.op = "pre_send_connect"
    /\ last.pre.created = 1
    /\ ~last.pre.connected
    /\ Len(last.sent) = 1
    /\ created = 1

\* C22: when the PINGREQ of post_test_case_callback is answered with a
\* PINGRESP, the callback leaves sock, connected and client_id as they were,
\* the socket open, an authenticated session authenticated, and sends
\* nothing but the PINGREQ: no DISCONNECT.
C22_ProbeSuccessKeepsSession ==
    (/\ last.op = "post_test_case_callback"
     /\ last.pre.created > 0
     /\ last.pre.sock # None
     /\ last.err = "none"
     /\ last.recvd = <<208, 0>>)
    => /\ sock = last.pre.sock
       /\ connected = last.pre.connected
       /\ client_id = last.pre.client_id
       /\ last.pre.connected => connected
       /\ socks[sock].state = last.pre.socks[sock].state
       /\ socks[sock].auth = last.pre.socks[sock].auth
       /\ last.sent = <<[via |-> "mqtt", sock |-> sock, data |-> <<192, 0>>]>>
       /\ last.raised = "none"

\* The probe of an authenticated session was answered with D0 00.
C22_Witness ==
    /\ last.op = "post_test_case_callback"
    /\ last.pre.connected
    /\ last.recvd = <<208, 0>>
    /\ connected
    /\ sock = last.pre.sock

\* C23: the session goes from connected to not connected only in a
\* post_test_case_callback whose probe failed (an exception, or a reply other
\* than D0 00) or in a call of disconnect; pre_send_connect and the
\* transmission of a test case never clear connected.
C23_OnlyProbeFailureRetires ==
    /\ (last.pre.connected /\ ~connected) =>
          \/ last.op = "disconnect"
          \/ /\ last.op = "post_test_case_callback"
             /\ (last.err # "none" \/ last.recvd # <<208, 0>>)
    /\ (last.op \in {"pre_send_connect", "transmit"} /\ last.pre.connected) => connected

\* A connected session was retired by a probe that timed out.
C23_Witness ==
    /\ last.op = "post_test_case_callback"
    /\ last.pre.connected
    /\ last.err = "timeout"
    /\ ~connected

\* A step of the callbacks in which the broker does its part: a handshake
\* that is made meets no socket error and is answered 20 02 00 00, a PINGREQ
\* that is sent is answered D0 00.
BrokerAccepts ==
    /\ last'.op \in {"pre_send_connect", "transmit", "post_test_case_callback"}
    /\ last'.err = "none"
    /\ last'.op = "pre_send_connect" =>
          (~last'.pre.connected => last'.recvd = <<32, 2, 0, 0>>)
    /\ last'.op = "post_test_case_callback" =>
          (last'.sent # <<>> => last'.recvd = <<208, 0>>)

\* What pre_send_connect does on a session that is not connected: it makes
\* one new socket, or socket() itself fails, and a CONNECT it sends goes
\* over the new socket.
NewHandshakeAttempted ==
    (last.op = "pre_send_connect" /\ ~last.pre.connected) =>
        /\ \/ last.opened = {Len(last.pre.socks) + 1} /\ sock = Len(last.pre.socks) + 1
           \/ last.opened = {} /\ last.err # "none" /\ last.sent = <<>>
        /\ \A i \in DOMAIN last.sent :
              last.sent[i].sock = Len(last.pre.socks) + 1 /\ last.sent[i].data[1] = 16

\* C24: after a failed probe or a disconnect the session has no socket and is
\* not connected, and the next pre_send_connect attempts a handshake on a new
\* socket; and if from some point on the broker accepts every handshake and
\* answers every PINGREQ, the session becomes connected and stays connected.
C24_LazyRecreation ==
    /\ [](/\ (last.op = "disconnect" => (sock = None /\ ~connected))
          /\ NewHandshakeAttempted)
    /\ (<>[][BrokerAccepts]_vars => <>[]connected)

\* A session torn down earlier was connected again by pre_send_connect, on a
\* new socket.
C24_Witness ==
    /\ last.op = "pre_send_connect"
    /\ last.pre.created = 1
    /\ last.pre.sock = None
    /\ Len(last.pre.socks) > 0
    /\ connected
    /\ sock = Len(socks)

\* C25: every operation of the lifecycle returns, whatever the broker does:
\* no call of connect, post_test_case_callback or disconnect is left blocked,
\* and every socket they send and receive on has a timeout set, 5.0 by
\* connect or 1.0 by the probe.
C25_OperationsTerminate ==
    /\ pc \in {"pre", "send", "post"}
    /\ last.raised # "blocked" /\ last.err # "blocked"
    /\ \A i \in DOMAIN socks : socks[i].timeout \in {CONNECT_TIMEOUT, PROBE_TIMEOUT}

\* The broker accepted the connection and sent nothing: the handshake ended
\* with socket.timeout and pre_send_connect returned.
C25_Witness ==
    /\ last.op = "pre_send_connect"
    /\ last.err = "timeout"
    /\ Len(last.sent) = 1
    /\ last.ret = "False"
    /\ pc = "send"

\* C26: the session has at most one open socket at any time: when connect
\* makes a socket, every socket it made before is closed.
C26_OneOpenTransport ==
    /\ Cardinality({i \in DOMAIN socks : socks[i].state = "open"}) <= 1
    /\ last.opened # {} =>
          \A i \in DOMAIN last.pre.socks : last.pre.socks[i].state = "closed"

\* C27: whenever connected is True, sock is not None and is a socket on which
\* a CONNACK with return code 0 was received.
C27_ConnectedHasAcceptedSocket ==
    connected => (sock # None /\ socks[sock].state = "open" /\ socks[sock].auth)

\* C28: connect returns True exactly when connected is True at its return,
\* from whatever state it is called.
C28_ReturnAgreesWithState ==
    last.op = "connect" =>
        /\ last.raised = "none"
        /\ (last.ret = "True") <=> connected
        /\ last.ret = "False" => ~connected

\* The least k with 128^k >= n + 1, for 0 <= n < 128^5.
RECURSIVE Pow128(_)
Pow128(k) == IF k = 0 THEN 1 ELSE 128 * Pow128(k - 1)

CeilLog128(n) ==
    IF n >= Pow128(4) THEN 5
    ELSE CHOOSE k \in 0..4 : Pow128(k) >= n + 1 /\ (k > 0 => Pow128(k - 1) < n + 1)

\* C29: the loop of _encode_remaining_length ends for every integer
\* argument, negative ones included, and for n >= 0 it ends after at most
\* ceil(log128(n + 1)) iterations, one for n = 0. The loop goes by length
\* alone, so an iteration that neither ends it nor changes length is
\* repeated for ever.
C29_EncodeLoopTerminates ==
    /\ []((calc.fn = "encode_loop" /\ calc.arg >= 0) =>
             calc.iters <= (IF calc.arg = 0 THEN 1 ELSE CeilLog128(calc.arg)))
    /\ []((calc.fn = "encode_loop" /\ calc.iters > 0 /\ ~calc.done) =>
             calc.length # calc.before)
    /\ [](calc.fn = "encode_loop" => <>(calc.fn = "encode_loop" /\ calc.done))

====
